---- MODULE Spec2Model ----
(***************************************************************************)
(* Device and presentation capability negotiation of src/main.rs:          *)
(* queue family resolution (QueueIndexes::fold_into), device selection     *)
(* (TutorApp::pick_device), swapchain parameter negotiation                *)
(* (SwapChainSupport, TutorApp::create_swapchain) and the create/teardown  *)
(* sequence (TutorApp::init_vulkan, impl Drop for TutorApp).               *)
(***************************************************************************)
EXTENDS Integers, Sequences, FiniteSets

VARIABLES
    pc,            \* position of the operation being followed
    queues,        \* queue family properties of one device (graphics flag per family)
    support,       \* result of get_physical_device_surface_support per family
    queue_ids,     \* outcome of the try_fold + match of pick_device
    n_devices,     \* length of the enumerated device list
    probed,        \* per device, in enumeration order: the query results the closure received
    cands,         \* items the filter_map closure yielded: (score, dev, queue_ids)
    picked,        \* the item max_by returned
    present_modes, \* SwapChainSupport.present_modes
    present,       \* result of choose_swap_present_mode
    caps,          \* SwapChainSupport.capabilities
    inner,         \* window.inner_size()
    extent,        \* result of get_swap_extent
    image_count,   \* image count computed by create_swapchain
    alive,         \* Vulkan objects created and not yet destroyed
    destroyed,     \* destroy calls made so far, in call order
    images,        \* swapchain images returned by get_swapchain_images
    views,         \* image views collected so far by create_image_views
    same_family    \* queue_ids.graphics == queue_ids.present for the picked device

vars == <<pc, queues, support, queue_ids, n_devices, probed, cands, picked,
          present_modes, present, caps, inner, extent, image_count,
          alive, destroyed, images, views, same_family>>

queueVars == <<queues, support, queue_ids>>
pickVars == <<n_devices, probed, cands, picked>>
paramVars == <<present_modes, present, caps, inner, extent, image_count>>
lifeVars == <<alive, destroyed, images, views, same_family>>

(***************************************************************************)
(* Bounds of the model                                                     *)
(***************************************************************************)
MaxFamilies == 3
MaxDevices == 2
MaxScore == 2
MaxImageCount == 9
MaxImages == 4

(***************************************************************************)
(* Rust values                                                             *)
(***************************************************************************)
\* u32::MAX. TLC's integers are 32-bit signed, so the model's unsigned words are
\* 31 bits wide: the largest value, the role u32::MAX plays in the code, is 2^31 - 1
U32_MAX == 2147483647

None == [some |-> FALSE, v |-> 0]
Some(x) == [some |-> TRUE, v |-> x]

Ok(x) == [status |-> "Ok", v |-> x]
Err(x) == [status |-> "Err", v |-> x]
NotQueried(x) == [status |-> "NotQueried", v |-> x]

\* Sequences over S of length at most n
SeqsUpTo(S, n) == UNION {[1..k -> S] : k \in 0..n}

(***************************************************************************)
(* Queue family resolution                                                 *)
(***************************************************************************)
QueueFamilyProperties == [graphics : BOOLEAN]
SupportResults == {Ok(TRUE), Ok(FALSE), Err(FALSE)}

\* fold_into without the early return on a family that does both
fold_into_NoBreak(acc, queue_i, queue, supported) ==
    LET acc0 == IF queue.graphics THEN [acc EXCEPT ![1] = Some(queue_i)] ELSE acc
    IN  IF supported.status # "Ok"
        THEN [tag |-> "Panic", acc |-> acc0]
        ELSE IF supported.v
             THEN [tag |-> "Ok", acc |-> [acc0 EXCEPT ![2] = Some(queue_i)]]
             ELSE [tag |-> "Ok", acc |-> acc0]

\* QueueIndexes::fold_into: acc is <<graphics, present>>, the result is
\* Ok(acc), Err(acc) (the short circuit) or the panic of the unwrap
fold_into(acc, queue_i, queue, supported) ==
    LET both == queue.graphics
        acc0 == IF queue.graphics THEN [acc EXCEPT ![1] = Some(queue_i)] ELSE acc
    IN  IF supported.status # "Ok"
        THEN [tag |-> "Panic", acc |-> acc0]
        ELSE IF supported.v
             THEN LET acc1 == [acc0 EXCEPT ![2] = Some(queue_i)]
                  IN  IF both THEN [tag |-> "Err", acc |-> acc1]
                              ELSE [tag |-> "Ok", acc |-> acc1]
             ELSE [tag |-> "Ok", acc |-> acc0]

\* queues.iter().enumerate().try_fold([None, None], ...), from position i on
RECURSIVE try_fold(_, _, _, _)
try_fold(qs, sup, i, acc) ==
    IF i > Len(qs)
    THEN [tag |-> "Ok", acc |-> acc]
    ELSE LET r == fold_into(acc, i - 1, qs[i], sup[i])
         IN  IF r.tag = "Ok" THEN try_fold(qs, sup, i + 1, r.acc) ELSE r

NoQueueIds == [tag |-> "None", graphics |-> 0, present |-> 0]
PanicQueueIds == [tag |-> "Panic", graphics |-> 0, present |-> 0]
QueueIndexes(g, p) == [tag |-> "Some", graphics |-> g, present |-> p]

\* the match on the try_fold result
resolve_queue_ids(qs, sup) ==
    LET r == try_fold(qs, sup, 1, <<None, None>>)
    IN  IF r.tag = "Panic" THEN PanicQueueIds
        ELSE IF r.acc[1].some /\ r.acc[2].some
             THEN QueueIndexes(r.acc[1].v, r.acc[2].v)
             ELSE NoQueueIds

IdleQueues ==
    /\ queues = <<>>
    /\ support = <<>>
    /\ queue_ids = NoQueueIds

IdlePick ==
    /\ n_devices = 0
    /\ probed = <<>>
    /\ cands = <<>>
    /\ picked = 0

IdleParams ==
    /\ present_modes = <<>>
    /\ present = "none"
    /\ caps = 0
    /\ inner = 0
    /\ extent = 0
    /\ image_count = 0

IdleLife ==
    /\ alive = {}
    /\ destroyed = <<>>
    /\ images = 0
    /\ views = <<>>
    /\ same_family = FALSE

InitQueues ==
    /\ pc = "try_fold"
    /\ \E k \in 0..MaxFamilies :
          /\ queues \in [1..k -> QueueFamilyProperties]
          /\ support \in [1..k -> SupportResults]
    /\ queue_ids = NoQueueIds
    /\ IdlePick /\ IdleParams /\ IdleLife

ResolveQueues ==
    /\ pc = "try_fold"
    /\ queue_ids' = resolve_queue_ids(queues, support)
    /\ pc' = "resolved"
    /\ UNCHANGED <<queues, support, pickVars, paramVars, lifeVars>>

NextQueues == ResolveQueues

SpecQueues == InitQueues /\ [][NextQueues]_vars

\* family indices (0-based, as queue_i) by capability
GraphicsFamilies == {i \in 0..(Len(queues) - 1) : queues[i + 1].graphics}
PresentFamilies ==
    {i \in 0..(Len(queues) - 1) :
        support[i + 1].status = "Ok" /\ support[i + 1].v}
CombinedFamilies == GraphicsFamilies \cap PresentFamilies
MinOf(S) == CHOOSE x \in S : \A y \in S : x <= y
MaxOf(S) == CHOOSE x \in S : \A y \in S : x >= y

C1_General ==
    (pc = "resolved" /\ queue_ids.tag # "Panic") =>
        IF CombinedFamilies # {}
        THEN queue_ids = QueueIndexes(MinOf(CombinedFamilies), MinOf(CombinedFamilies))
        ELSE IF GraphicsFamilies # {} /\ PresentFamilies # {}
             THEN queue_ids = QueueIndexes(MaxOf(GraphicsFamilies), MaxOf(PresentFamilies))
             ELSE queue_ids = NoQueueIds

\* the example of the claim: [present-only, graphics-only, graphics-only]
C1_ExampleDisjoint ==
    (/\ pc = "resolved"
     /\ Len(queues) = 3
     /\ ~queues[1].graphics /\ support[1] = Ok(TRUE)
     /\ queues[2].graphics /\ support[2] = Ok(FALSE)
     /\ queues[3].graphics /\ support[3] = Ok(FALSE))
        => queue_ids = QueueIndexes(2, 0)

\* C1: when the surface-support queries made by the scan succeed, queue resolution
\* yields the first family doing both graphics and presentation for both roles if
\* one exists; otherwise the last graphics-capable and the last presentation-capable
\* index if both kinds exist ([present-only, graphics-only, graphics-only] gives
\* graphics = 2, present = 0); otherwise the candidate is rejected.
C1_QueueResolution == C1_General /\ C1_ExampleDisjoint

\* a combined family found behind an earlier-scanned present-only and graphics-only family
C1_Witness ==
    /\ pc = "resolved"
    /\ Len(queues) = 3
    /\ ~queues[1].graphics /\ support[1] = Ok(TRUE)
    /\ queues[2].graphics /\ support[2] = Ok(FALSE)
    /\ queues[3].graphics /\ support[3] = Ok(TRUE)
    /\ queue_ids = QueueIndexes(2, 2)

(***************************************************************************)
(* Device selection                                                        *)
(***************************************************************************)
DEVICE_EXTENSIONS == <<"VK_KHR_swapchain">>

Range(f) == {f[i] : i \in DOMAIN f}

\* queue family lists the enumerated devices report, with the answers of the
\* surface-support query: none, one combined family, a present-only family
\* followed by a graphics-only one, graphics only, and a failing query
PickQueueConfigs ==
    { [queues |-> <<>>, support |-> <<>>],
      [queues |-> <<[graphics |-> TRUE]>>, support |-> <<Ok(TRUE)>>],
      [queues |-> <<[graphics |-> FALSE], [graphics |-> TRUE]>>,
       support |-> <<Ok(TRUE), Ok(FALSE)>>],
      [queues |-> <<[graphics |-> TRUE]>>, support |-> <<Ok(FALSE)>>],
      [queues |-> <<[graphics |-> TRUE]>>, support |-> <<Err(FALSE)>>] }

\* props.limits.max_image_dimension2_d
ScoreResults == {Ok(n) : n \in 0..MaxScore}

\* enumerate_device_extension_properties
ExtensionResults ==
    { Err(<<>>),
      Ok(<<"VK_KHR_maintenance1">>),
      Ok(<<"VK_KHR_maintenance1", "VK_KHR_swapchain">>) }

\* SwapChainSupport::new
NoSupport == [formats |-> <<>>, present_modes |-> <<>>]
SwapChainSupportResults ==
    {Err(NoSupport)} \cup
    { Ok([formats |-> f, present_modes |-> m]) :
        f \in {<<>>, <<"B8G8R8A8_SRGB">>}, m \in {<<>>, <<"FIFO">>} }

\* the extension test of the closure always passing
has_required_extensions_Always(extensions) == TRUE

\* !DEVICE_EXTENSIONS.iter().any(|ext| !extensions.contains(ext))
has_required_extensions(extensions) ==
    ~(\E i \in DOMAIN DEVICE_EXTENSIONS : DEVICE_EXTENSIONS[i] \notin Range(extensions))

NoItem == [score |-> 0, dev |-> 0, queue_ids |-> NoQueueIds]

\* the filter_map closure on the device at position dev whose queries answer d
filter_map_closure(dev, d) ==
    LET ids == resolve_queue_ids(d.queues, d.support)
        score == 0 + d.max_image_dimension2_d.v
    IN  IF ids.tag = "Panic" THEN [tag |-> "Panic", item |-> NoItem]
        ELSE IF ids.tag = "None" THEN [tag |-> "None", item |-> NoItem]
        ELSE IF d.extensions.status # "Ok" THEN [tag |-> "None", item |-> NoItem]
        ELSE IF ~has_required_extensions(d.extensions.v) THEN [tag |-> "None", item |-> NoItem]
        ELSE IF d.swapchain_support.status # "Ok" THEN [tag |-> "None", item |-> NoItem]
        ELSE IF /\ d.swapchain_support.v.formats = <<>>
                /\ d.swapchain_support.v.present_modes = <<>>
             THEN [tag |-> "None", item |-> NoItem]
        ELSE IF score > 0
             THEN [tag |-> "Some",
                   item |-> [score |-> score, dev |-> dev, queue_ids |-> ids]]
             ELSE [tag |-> "None", item |-> NoItem]

\* the queries the closure makes on a device before it returns: a query it never
\* reaches has no answer
Queried(d) ==
    LET ids == resolve_queue_ids(d.queues, d.support)
    IN  IF ids.tag # "Some"
        THEN /\ d.max_image_dimension2_d.status = "NotQueried"
             /\ d.extensions.status = "NotQueried"
             /\ d.swapchain_support.status = "NotQueried"
        ELSE /\ d.max_image_dimension2_d.status = "Ok"
             /\ d.extensions.status # "NotQueried"
             /\ IF d.extensions.status = "Ok" /\ has_required_extensions(d.extensions.v)
                THEN d.swapchain_support.status # "NotQueried"
                ELSE d.swapchain_support.status = "NotQueried"

\* max_by keeping the first of several equally maximum items
RECURSIVE max_by_FirstWins(_)
max_by_FirstWins(items) ==
    IF Len(items) = 1 THEN items[1]
    ELSE LET x == max_by_FirstWins(SubSeq(items, 1, Len(items) - 1))
             y == items[Len(items)]
         IN  IF x.score >= y.score THEN x ELSE y

\* Iterator::max_by(|(score1, ..), (score2, ..)| score1.cmp(score2)) on a non-empty
\* sequence: reduce(|x, y| match compare(&x, &y) { Greater => x, _ => y })
RECURSIVE max_by(_)
max_by(items) ==
    IF Len(items) = 1 THEN items[1]
    ELSE LET x == max_by(SubSeq(items, 1, Len(items) - 1))
             y == items[Len(items)]
         IN  IF x.score > y.score THEN x ELSE y

InitPick ==
    /\ pc = "enumerate_physical_devices"
    /\ IdleQueues /\ IdlePick /\ IdleParams /\ IdleLife

\* instance.enumerate_physical_devices()?
EnumeratePhysicalDevices ==
    /\ pc = "enumerate_physical_devices"
    /\ \/ /\ pc' = "error"
          /\ UNCHANGED n_devices
       \/ /\ \E n \in 0..MaxDevices : n_devices' = n
          /\ pc' = "filter_map"
    /\ UNCHANGED <<queueVars, probed, cands, picked, paramVars, lifeVars>>

\* one call of the filter_map closure, on the next device of the list
FilterMap ==
    /\ pc = "filter_map"
    /\ Len(probed) < n_devices
    /\ \E q \in PickQueueConfigs,
          p \in ScoreResults \cup {NotQueried(0)},
          e \in ExtensionResults \cup {NotQueried(<<>>)},
          s \in SwapChainSupportResults \cup {NotQueried(NoSupport)} :
          LET d == [queues |-> q.queues, support |-> q.support,
                    max_image_dimension2_d |-> p, extensions |-> e,
                    swapchain_support |-> s]
              r == filter_map_closure(Len(probed) + 1, d)
          IN  /\ Queried(d)
              /\ probed' = Append(probed, d)
              /\ cands' = IF r.tag = "Some" THEN Append(cands, r.item) ELSE cands
              /\ pc' = IF r.tag = "Panic" THEN "panic_unwrap" ELSE "filter_map"
    /\ UNCHANGED <<queueVars, n_devices, picked, paramVars, lifeVars>>

\* .max_by(...).expect("Failed to find a suitable GPU")
MaxBy ==
    /\ pc = "filter_map"
    /\ Len(probed) = n_devices
    /\ IF cands = <<>>
       THEN /\ pc' = "panic_no_gpu"
            /\ UNCHANGED <<picked, queue_ids>>
       ELSE /\ picked' = max_by(cands).dev
            /\ queue_ids' = max_by(cands).queue_ids
            /\ pc' = "picked"
    /\ UNCHANGED <<queues, support, n_devices, probed, cands, paramVars, lifeVars>>

NextPick == EnumeratePhysicalDevices \/ FilterMap \/ MaxBy

SpecPick == InitPick /\ [][NextPick]_vars

\* positions of the devices the closure kept, and the score of each
Survivors == {cands[k].dev : k \in DOMAIN cands}
ScoreOf(i) == probed[i].max_image_dimension2_d.v

\* C2 (as amended): the selected device is a surviving candidate of highest score,
\* and among the surviving candidates of highest score it is the last one in
\* enumeration order.
C2_HighestScoreLastWins ==
    pc = "picked" =>
        /\ picked \in Survivors
        /\ \A j \in Survivors :
              /\ ScoreOf(j) <= ScoreOf(picked)
              /\ ScoreOf(j) = ScoreOf(picked) => j <= picked

\* C2 (as stated): the selected device is a surviving candidate of highest score,
\* and among the surviving candidates of highest score it is the first one in
\* enumeration order.
C2_HighestScoreFirstWins ==
    pc = "picked" =>
        /\ picked \in Survivors
        /\ \A j \in Survivors :
              /\ ScoreOf(j) <= ScoreOf(picked)
              /\ ScoreOf(j) = ScoreOf(picked) => picked <= j

\* two surviving candidates share the highest score
C2_Witness ==
    /\ pc = "picked"
    /\ Cardinality(Survivors) = 2
    /\ \A j \in Survivors : ScoreOf(j) = ScoreOf(picked)

LacksSwapchain(d) ==
    d.extensions.status = "Ok" /\ "VK_KHR_swapchain" \notin Range(d.extensions.v)

\* C3: a device whose extension list does not contain VK_KHR_swapchain is never
\* the device pick_device returns.
C3_NoSwapchainNeverPicked ==
    pc = "picked" => \A i \in DOMAIN probed : LacksSwapchain(probed[i]) => picked # i

\* a device is picked although a device without the extension has a higher score
C3_Witness ==
    /\ pc = "picked"
    /\ \E i \in DOMAIN probed :
          /\ LacksSwapchain(probed[i])
          /\ ScoreOf(i) > ScoreOf(picked)

\* C4: every candidate that reaches scoring, and so the device pick_device returns,
\* has a non-empty format list and a non-empty present-mode list.
C4_NonEmptyFormatsAndModes ==
    \A k \in DOMAIN cands :
        /\ probed[cands[k].dev].swapchain_support.v.formats # <<>>
        /\ probed[cands[k].dev].swapchain_support.v.present_modes # <<>>

QueryFailed(d) ==
    \/ \E i \in DOMAIN d.support : d.support[i].status = "Err"
    \/ d.extensions.status = "Err"
    \/ d.swapchain_support.status = "Err"

\* C5: a failing capability query makes its candidate ineligible and nothing more:
\* the candidate is not kept, and the selection pass does not abort on the failure.
C5_QueryFailureOnlyRejects ==
    \A i \in DOMAIN probed :
        QueryFailed(probed[i]) => (i \notin Survivors /\ pc # "panic_unwrap")

(***************************************************************************)
(* Present mode                                                            *)
(***************************************************************************)
PresentModeKHR == {"IMMEDIATE", "MAILBOX", "FIFO", "FIFO_RELAXED", "SHARED_DEMAND_REFRESH"}

DESIRED_MODES == <<"MAILBOX", "IMMEDIATE", "FIFO_RELAXED", "FIFO">>

\* the supported lists a surface reports: every duplicate-free list of modes
PresentModeLists ==
    {m \in SeqsUpTo(PresentModeKHR, Cardinality(PresentModeKHR)) :
        \A i, j \in DOMAIN m : m[i] = m[j] => i = j}

IsDesired(mode) == mode \in Range(DESIRED_MODES)

\* the first supported mode that is a desired one, in the order of the supported list
choose_swap_present_mode_SupportedOrder(modes) ==
    LET hits == SelectSeq(modes, IsDesired)
    IN  IF hits = <<>> THEN "panic" ELSE hits[1]

\* SwapChainSupport::choose_swap_present_mode: DESIRED_MODES filtered by
\* present_modes.contains, .next(), .expect(...)
choose_swap_present_mode(modes) ==
    LET Supported(mode) == mode \in Range(modes)
        hits == SelectSeq(DESIRED_MODES, Supported)
    IN  IF hits = <<>> THEN "panic" ELSE hits[1]

InitPresentMode ==
    /\ pc = "choose_swap_present_mode"
    /\ present_modes \in PresentModeLists
    /\ present = "none"
    /\ caps = 0 /\ inner = 0 /\ extent = 0 /\ image_count = 0
    /\ IdleQueues /\ IdlePick /\ IdleLife

ChooseSwapPresentMode ==
    /\ pc = "choose_swap_present_mode"
    /\ present' = choose_swap_present_mode(present_modes)
    /\ pc' = IF present' = "panic" THEN "panic_expect" ELSE "chosen"
    /\ UNCHANGED <<queueVars, pickVars, present_modes, caps, inner, extent, image_count,
                   lifeVars>>

NextPresentMode == ChooseSwapPresentMode

SpecPresentMode == InitPresentMode /\ [][NextPresentMode]_vars

\* position of a mode in the preference order
Rank(mode) == CHOOSE i \in DOMAIN DESIRED_MODES : DESIRED_MODES[i] = mode

C8_General ==
    (pc # "choose_swap_present_mode" /\ "FIFO" \in Range(present_modes)) =>
        /\ pc = "chosen"
        /\ present \in Range(present_modes) \cap Range(DESIRED_MODES)
        /\ \A m \in Range(present_modes) \cap Range(DESIRED_MODES) : Rank(present) <= Rank(m)

C8_Examples ==
    pc # "choose_swap_present_mode" =>
        /\ Range(present_modes) = {"FIFO", "IMMEDIATE"} => present = "IMMEDIATE"
        /\ Range(present_modes) = {"FIFO"} => present = "FIFO"

\* C8: for every supported list that contains FIFO, choose_swap_present_mode returns
\* the supported mode that comes first in the order mailbox, immediate, relaxed-FIFO,
\* FIFO, whatever the order of the supported list: {FIFO, IMMEDIATE} gives IMMEDIATE
\* and {FIFO} gives FIFO.
C8_PresentModePreference == C8_General /\ C8_Examples

\* FIFO listed before IMMEDIATE, and IMMEDIATE is chosen
C8_Witness ==
    /\ pc = "chosen"
    /\ present_modes = <<"FIFO", "IMMEDIATE">>
    /\ present = "IMMEDIATE"

(***************************************************************************)
(* Extent                                                                  *)
(***************************************************************************)
Extent2D(w, h) == [width |-> w, height |-> h]

\* widths and heights of the snapshots and of the drawable area
DimVals == {10, 100, 1000, 2000}

\* Ord::clamp; its assert!(min <= max) holds for every snapshot drawn, as
\* max_image_extent is at least min_image_extent on each axis
clamp(v, lo, hi) == IF v < lo THEN lo ELSE IF v > hi THEN hi ELSE v

\* the height clamped to the bounds of the width
get_swap_extent_WidthBounds(c, size) ==
    IF c.current_extent.width # U32_MAX
    THEN c.current_extent
    ELSE Extent2D(clamp(size.width, c.min_image_extent.width, c.max_image_extent.width),
                  clamp(size.height, c.min_image_extent.width, c.max_image_extent.width))

\* SwapChainSupport::get_swap_extent, size being window.inner_size()
get_swap_extent(c, size) ==
    IF c.current_extent.width # U32_MAX
    THEN c.current_extent
    ELSE Extent2D(clamp(size.width, c.min_image_extent.width, c.max_image_extent.width),
                  clamp(size.height, c.min_image_extent.height, c.max_image_extent.height))

InitExtent ==
    /\ pc = "get_swap_extent"
    /\ \E cw \in DimVals \cup {U32_MAX}, ch \in {100, U32_MAX},
          lw \in DimVals, lh \in DimVals, hw \in DimVals, hh \in DimVals :
          /\ lw <= hw /\ lh <= hh
          /\ caps = [current_extent |-> Extent2D(cw, ch),
                     min_image_extent |-> Extent2D(lw, lh),
                     max_image_extent |-> Extent2D(hw, hh),
                     min_image_count |-> 2,
                     max_image_count |-> 0]
    /\ inner \in [width : DimVals, height : DimVals]
    /\ extent = Extent2D(0, 0)
    /\ present_modes = <<>> /\ present = "none" /\ image_count = 0
    /\ IdleQueues /\ IdlePick /\ IdleLife

GetSwapExtent ==
    /\ pc = "get_swap_extent"
    /\ extent' = get_swap_extent(caps, inner)
    /\ pc' = "extent_resolved"
    /\ UNCHANGED <<queueVars, pickVars, present_modes, present, caps, inner, image_count,
                   lifeVars>>

NextExtent == GetSwapExtent

SpecExtent == InitExtent /\ [][NextExtent]_vars

\* e is v brought into [lo, hi]
ClampedTo(e, v, lo, hi) ==
    /\ lo <= e /\ e <= hi
    /\ (lo <= v /\ v <= hi) => e = v
    /\ v < lo => e = lo
    /\ v > hi => e = hi

C9_General ==
    pc = "extent_resolved" =>
        IF caps.current_extent.width # U32_MAX
        THEN extent = caps.current_extent
        ELSE /\ ClampedTo(extent.width, inner.width,
                          caps.min_image_extent.width, caps.max_image_extent.width)
             /\ ClampedTo(extent.height, inner.height,
                          caps.min_image_extent.height, caps.max_image_extent.height)

C9_Example ==
    (/\ pc = "extent_resolved"
     /\ caps.current_extent.width = U32_MAX
     /\ inner = Extent2D(1000, 10)
     /\ caps.min_image_extent = Extent2D(100, 100)
     /\ caps.max_image_extent = Extent2D(2000, 2000))
        => extent = Extent2D(1000, 100)

\* C9: get_swap_extent returns the current extent unchanged when its width is not
\* u32::MAX; otherwise the drawable width and height, each clamped to the bounds of
\* its own axis: (1000, 10) with min (100, 100) and max (2000, 2000) gives (1000, 100).
C9_SwapExtent == C9_General /\ C9_Example

\* the example of the claim, resolved
C9_Witness ==
    /\ pc = "extent_resolved"
    /\ caps.current_extent.width = U32_MAX
    /\ inner = Extent2D(1000, 10)
    /\ caps.min_image_extent = Extent2D(100, 100)
    /\ caps.max_image_extent = Extent2D(2000, 2000)
    /\ extent = Extent2D(1000, 100)

(***************************************************************************)
(* Image count                                                             *)
(***************************************************************************)
\* u32 + 1: past u32::MAX a release build wraps to 0 (a debug build panics); the
\* image counts drawn stay far below
u32_add_one(x) == IF x < U32_MAX THEN x + 1 ELSE 0

\* the image count without the test for "no upper bound"
swapchain_image_count_NoZeroTest(c) ==
    LET curr == u32_add_one(c.min_image_count)
    IN  IF curr > c.max_image_count THEN c.max_image_count ELSE curr

\* the image_count block of create_swapchain
swapchain_image_count(c) ==
    LET curr == u32_add_one(c.min_image_count)
    IN  IF c.max_image_count > 0 /\ curr > c.max_image_count
        THEN c.max_image_count
        ELSE curr

InitImageCount ==
    /\ pc = "image_count"
    /\ \E lo \in 0..MaxImageCount, hi \in 0..MaxImageCount :
          caps = [current_extent |-> Extent2D(800, 600),
                  min_image_extent |-> Extent2D(1, 1),
                  max_image_extent |-> Extent2D(4096, 4096),
                  min_image_count |-> lo,
                  max_image_count |-> hi]
    /\ image_count = 0
    /\ present_modes = <<>> /\ present = "none" /\ inner = 0 /\ extent = 0
    /\ IdleQueues /\ IdlePick /\ IdleLife

ImageCount ==
    /\ pc = "image_count"
    /\ image_count' = swapchain_image_count(caps)
    /\ pc' = "image_count_resolved"
    /\ UNCHANGED <<queueVars, pickVars, present_modes, present, caps, inner, extent,
                   lifeVars>>

NextImageCount == ImageCount

SpecImageCount == InitImageCount /\ [][NextImageCount]_vars

\* C10: the image count is min_image_count + 1, except that it is max_image_count
\* when max_image_count is nonzero and min_image_count + 1 exceeds it; with
\* max_image_count = 0 it is min_image_count + 1. min = 2, max = 2 gives 2.
C10_ImageCount ==
    pc = "image_count_resolved" =>
        /\ caps.max_image_count = 0 => image_count = caps.min_image_count + 1
        /\ (caps.max_image_count # 0 /\ caps.min_image_count + 1 > caps.max_image_count)
              => image_count = caps.max_image_count
        /\ (caps.max_image_count # 0 /\ caps.min_image_count + 1 <= caps.max_image_count)
              => image_count = caps.min_image_count + 1
        /\ (caps.min_image_count = 2 /\ caps.max_image_count = 2) => image_count = 2

\* the count clamped down from 3 to 2
C10_Witness ==
    /\ pc = "image_count_resolved"
    /\ caps.min_image_count = 2
    /\ caps.max_image_count = 2
    /\ image_count = 2

(***************************************************************************)
(* Creation and teardown                                                   *)
(***************************************************************************)
Obj(kind, id) == [kind |-> kind, id |-> id]
TheInstance == Obj("instance", 0)
TheSurface == Obj("surface", 0)
TheDevice == Obj("device", 0)
TheSwapchain == Obj("swapchain", 0)
ImageView(k) == Obj("image_view", k)

\* the objects an object is created from, directly or through another object
Ancestors(o) ==
    IF o.kind = "image_view" THEN {TheSwapchain, TheDevice, TheSurface, TheInstance}
    ELSE IF o.kind = "swapchain" THEN {TheDevice, TheSurface, TheInstance}
    ELSE IF o.kind \in {"device", "surface"} THEN {TheInstance}
    ELSE {}

InitLife ==
    /\ pc = "create_instance"
    /\ IdleQueues /\ IdlePick /\ IdleParams /\ IdleLife

\* Self::create_instance(window)?
CreateInstance ==
    /\ pc = "create_instance"
    /\ \/ /\ alive' = alive \cup {TheInstance}
          /\ pc' = "create_surface"
       \/ /\ pc' = "failed"
          /\ UNCHANGED alive
    /\ UNCHANGED <<queueVars, pickVars, paramVars, destroyed, images, views, same_family>>

\* ash_window::create_surface(...)?
CreateSurface ==
    /\ pc = "create_surface"
    /\ \/ /\ alive' = alive \cup {TheSurface}
          /\ pc' = "pick_device"
       \/ /\ pc' = "failed"
          /\ UNCHANGED alive
    /\ UNCHANGED <<queueVars, pickVars, paramVars, destroyed, images, views, same_family>>

\* Self::pick_device(...)? as init_vulkan sees it: a device with its queue indexes,
\* an error, or a panic
PickDevice ==
    /\ pc = "pick_device"
    /\ \/ /\ same_family' \in BOOLEAN
          /\ pc' = "create_logical_device"
       \/ /\ pc' \in {"failed", "panicked"}
          /\ UNCHANGED same_family
    /\ UNCHANGED <<queueVars, pickVars, paramVars, alive, destroyed, images, views>>

\* Self::create_logical_device(...)?
CreateLogicalDevice ==
    /\ pc = "create_logical_device"
    /\ \/ /\ alive' = alive \cup {TheDevice}
          /\ pc' = "create_swapchain"
       \/ /\ pc' = "failed"
          /\ UNCHANGED alive
    /\ UNCHANGED <<queueVars, pickVars, paramVars, destroyed, images, views, same_family>>

\* Self::create_swapchain(...)?: it fails before the swapchain exists (the support
\* query, create_swapchain) or after (get_swapchain_images)
CreateSwapchain ==
    /\ pc = "create_swapchain"
    /\ \/ /\ pc' = "failed"
          /\ UNCHANGED <<alive, images>>
       \/ /\ alive' = alive \cup {TheSwapchain}
          /\ pc' = "failed"
          /\ UNCHANGED images
       \/ /\ alive' = alive \cup {TheSwapchain}
          /\ \E n \in 0..MaxImages : images' = n
          /\ pc' = "create_image_views"
    /\ UNCHANGED <<queueVars, pickVars, paramVars, destroyed, views, same_family>>

\* one step of the map in create_image_views: device.create_image_view(...)?; on
\* an error collect() stops and the views collected so far are dropped as plain handles
CreateImageView ==
    /\ pc = "create_image_views"
    /\ Len(views) < images
    /\ \/ /\ views' = Append(views, ImageView(Len(views) + 1))
          /\ alive' = alive \cup {ImageView(Len(views) + 1)}
          /\ pc' = "create_image_views"
       \/ /\ views' = <<>>
          /\ pc' = "failed"
          /\ UNCHANGED alive
    /\ UNCHANGED <<queueVars, pickVars, paramVars, destroyed, images, same_family>>

\* init_vulkan returns Ok and TutorApp::new builds the TutorApp
New ==
    /\ pc = "create_image_views"
    /\ Len(views) = images
    /\ pc' = "run"
    /\ UNCHANGED <<queueVars, pickVars, paramVars, lifeVars>>

\* app.run(): the event loop ends and the TutorApp, owned by run, goes out of scope
Run ==
    /\ pc = "run"
    /\ pc' = "drop"
    /\ UNCHANGED <<queueVars, pickVars, paramVars, lifeVars>>

\* the destroy calls with the logical device destroyed before the swapchain
drop_order_DeviceFirst ==
    views \o <<TheDevice, TheSwapchain, TheSurface, TheInstance>>

\* the destroy calls of Drop::drop, in call order
drop_order ==
    views \o <<TheSwapchain, TheDevice, TheSurface, TheInstance>>

\* the next destroy call of Drop::drop
Drop ==
    /\ pc = "drop"
    /\ LET o == drop_order[Len(destroyed) + 1]
       IN  /\ destroyed' = Append(destroyed, o)
           /\ alive' = alive \ {o}
    /\ pc' = IF Len(destroyed') = Len(drop_order) THEN "exited" ELSE "drop"
    /\ UNCHANGED <<queueVars, pickVars, paramVars, images, views, same_family>>

NextLife ==
    \/ CreateInstance \/ CreateSurface \/ PickDevice \/ CreateLogicalDevice
    \/ CreateSwapchain \/ CreateImageView \/ New \/ Run \/ Drop

SpecLife == InitLife /\ [][NextLife]_vars

\* resources created so far
Created == alive \cup Range(destroyed)

\* C6: when a build step fails after the logical device was created (swapchain
\* creation failing, or an image view creation failing after earlier views of the
\* batch), every resource that was created is destroyed, and no handle is destroyed
\* that is absent or already destroyed.
C6_PartialTeardown ==
    (pc = "failed" /\ TheDevice \in Created) =>
        /\ alive = {}
        /\ \A i \in DOMAIN destroyed : \A j \in DOMAIN destroyed :
              destroyed[i] = destroyed[j] => i = j

TeardownOrder ==
    pc = "exited" =>
        /\ Len(destroyed) = images + 4
        /\ \A k \in 1..images : destroyed[k] = ImageView(k)
        /\ destroyed[images + 1] = TheSwapchain
        /\ destroyed[images + 2] = TheDevice
        /\ destroyed[images + 3] = TheSurface
        /\ destroyed[images + 4] = TheInstance
        /\ alive = {}

NoParentDestroyedFirst ==
    \A o \in alive : \A i \in DOMAIN destroyed : destroyed[i] \notin Ancestors(o)

\* C7: teardown of a fully built application destroys every image view, then the
\* swapchain, then the logical device, then the surface, then the instance; and in
\* every state no destroyed resource has a resource that depends on it still alive.
C7_TeardownOrder == TeardownOrder /\ NoParentDestroyedFirst

\* a fully built application with several image views, torn down
C7_Witness ==
    /\ pc = "exited"
    /\ images >= 2
    /\ Len(destroyed) = images + 4

====
